---- MODULE Spec2Model ----
(***************************************************************************)
(* Verification model of four pieces of demisto-sdk:                       *)
(*   - XSIAMReport.dump, the version-gated export of an XSIAM report       *)
(*     (commands/common/content/objects/pack_objects/xsiam_report),        *)
(*   - ContentItem.normalize_name, the server-name normalisation           *)
(*     (commands/content_graph/objects/content_item.py),                   *)
(*   - ContentItem.in_pack / uses / tested_by, the relationship queries,   *)
(*   - BaseUpdateYML.update_yml, the generic YML formatter                 *)
(*     (commands/format/update_generic_yml.py).                            *)
(*                                                                         *)
(* Text (file names, paths, YML names) is a sequence of tokens; a token    *)
(* is a piece of text no other token overlaps, so that Python's            *)
(* str.startswith and str.replace on the text are the same operations on   *)
(* the token sequence.  "/" is the path separator.                         *)
(***************************************************************************)
EXTENDS Integers, Sequences, FiniteSets, TLC

VARIABLES
    \* ---- XSIAMReport.dump
    path,            \* self._path: the report definition in the pack
    data,            \* the report's JSON: a function on the keys it declares
    dest_dir,        \* the dest_dir argument of dump
    disk,            \* the file system: path |-> content of every file
    dirs,            \* the directories that exist
    created_files,   \* the list dump returns
    taken,           \* the version branches dump entered
    pc,              \* "ready", "returned" or "raised"
    \* ---- ContentItem.normalize_name
    name,            \* self.path.name
    server_name,     \* self.content_type.server_name
    normalized,      \* normalize_name of name
    renormalized,    \* normalize_name of an item whose file is called normalized
    npc,             \* "start", "once", "twice"
    \* ---- ContentItem.in_pack / uses / tested_by
    relationships_data,  \* node |-> relationship type |-> set of RelationshipData
    iter_order,          \* node |-> the order iter() walks its IN_PACK set in
    query,               \* the last property read of the graph as it is: [op, node, result]
    \* ---- BaseUpdateYML.update_yml
    yml_type,                \* self.__class__.__name__
    source_yml,              \* the top-level mapping of the file as it was read
    yml_data,                \* self.yml_data: the top-level mapping
    commonfields,            \* the mapping object yml_data['commonfields'] was loaded as
    id_and_version_location, \* which object self.id_and_version_location refers to
    arguments_to_remove,     \* self.arguments_to_remove
    old_file,                \* self.old_file
    from_version,            \* self.from_version
    schema_fields,           \* the keys of the schema's 'mapping'
    ypc                      \* "constructed", "done" or "raised"

dumpVars  == <<path, data, dest_dir, disk, dirs, created_files, taken, pc>>
normVars  == <<name, server_name, normalized, renormalized, npc>>
graphVars == <<relationships_data, iter_order, query>>
ymlVars   == <<yml_type, source_yml, yml_data, commonfields, id_and_version_location,
               arguments_to_remove, old_file, from_version, schema_fields, ypc>>
vars      == <<dumpVars, normVars, graphVars, ymlVars>>

(***************************************************************************)
(* Python str and list operations, on token sequences.                     *)
(***************************************************************************)

\* s.startswith(p)
StartsWith(s, p) == Len(p) <= Len(s) /\ SubSeq(s, 1, Len(p)) = p

\* whether old occurs in s at index i
OccursAt(s, old, i) == i + Len(old) - 1 <= Len(s) /\ SubSeq(s, i, i + Len(old) - 1) = old

\* s.replace(old, new): every occurrence, leftmost first, non-overlapping, one pass
RECURSIVE ReplaceFrom(_, _, _, _)
ReplaceFrom(s, old, new, i) ==
    IF i > Len(s) THEN <<>>
    ELSE IF OccursAt(s, old, i) THEN new \o ReplaceFrom(s, old, new, i + Len(old))
    ELSE <<s[i]>> \o ReplaceFrom(s, old, new, i + 1)

Replace(s, old, new) == ReplaceFrom(s, old, new, 1)

\* list.remove(x): drops the first element equal to x
ListRemove(list, x) ==
    LET hits == {i \in 1..Len(list) : list[i] = x}
        first == CHOOSE i \in hits : \A j \in hits : i <= j
    IN  IF hits = {} THEN list
        ELSE SubSeq(list, 1, first - 1) \o SubSeq(list, first + 1, Len(list))

\* dict.get(key, default)
Get(d, key, default) == IF key \in DOMAIN d THEN d[key] ELSE default


(***************************************************************************)
(* Paths (wcmatch.pathlib.Path) and the file system.                       *)
(***************************************************************************)

\* pathlib's parent / name
JoinPath(dir, file_name) == dir \o <<"/">> \o file_name

LastSlash(p) ==
    LET at == {i \in 1..Len(p) : p[i] = "/"}
    IN  IF at = {} THEN 0 ELSE CHOOSE i \in at : \A j \in at : j <= i

\* Path.parent
Parent(p) == SubSeq(p, 1, LastSlash(p) - 1)

\* Path.name
Name(p) == SubSeq(p, LastSlash(p) + 1, Len(p))

\* Path.stem: the name without its last suffix
Stem(p) == SubSeq(Name(p), 1, Len(Name(p)) - 1)

\* None, for an Optional path
None == <<>>

\* shutil.copyfile(src, dst): dst gets src's bytes; FileNotFoundError when
\* dst's directory does not exist
shutil_copyfile(files, ds, src, dst) ==
    IF Parent(dst) \notin ds THEN [ok |-> FALSE, files |-> files]
    ELSE [ok |-> TRUE,
          files |-> [p \in DOMAIN files \cup {dst} |-> IF p = dst THEN files[src] ELSE files[p]]]

\* a move that leaves the source behind
shutil_move_keeps_source(files, ds, src, dst) == shutil_copyfile(files, ds, src, dst)

\* shutil.move(src, dst): os.rename, dst replaced when it exists;
\* FileNotFoundError when dst's directory does not exist
shutil_move(files, ds, src, dst) ==
    IF Parent(dst) \notin ds THEN [ok |-> FALSE, files |-> files]
    ELSE [ok |-> TRUE,
          files |-> [p \in (DOMAIN files \ {src}) \cup {dst} |->
                        IF p = dst THEN files[src] ELSE files[p]]]

(***************************************************************************)
(* Version(...) of packaging.version: a release "6.10.0" is the tuple of   *)
(* its numbers; the comparison key drops trailing zeros and tuples compare *)
(* as Python tuples do.                                                    *)
(***************************************************************************)

RECURSIVE StripTrailingZeros(_)
StripTrailingZeros(r) ==
    IF Len(r) > 0 /\ r[Len(r)] = 0 THEN StripTrailingZeros(SubSeq(r, 1, Len(r) - 1)) ELSE r

RECURSIVE TupleLess(_, _)
TupleLess(a, b) ==
    IF Len(b) = 0 THEN FALSE
    ELSE IF Len(a) = 0 THEN TRUE
    ELSE IF a[1] # b[1] THEN a[1] < b[1]
    ELSE TupleLess(Tail(a), Tail(b))

\* Version(a) < Version(b)
VersionLess(a, b) == TupleLess(StripTrailingZeros(a), StripTrailingZeros(b))

\* Version(a) >= Version(b)
VersionGreaterEq(a, b) == ~VersionLess(a, b)

\* Version('6.10.0'), the version the export changes at
Cutover == <<6, 10, 0>>

\* the defaults of self.get('fromVersion', '0.0.0') and self.get('toVersion', '99.99.99')
DefaultFromVersion == <<0, 0, 0>>
DefaultToVersion == <<99, 99, 99>>

(***************************************************************************)
(* XSIAMReport                                                             *)
(***************************************************************************)

\* constants.XSIAM_REPORT
XSIAM_REPORT == <<"xsiamreport">>

\* the text 'external-'
EXTERNAL == <<"external", "-">>

\* tools.generate_xsiam_normalized_name(file_name, prefix)
generate_xsiam_normalized_name(file_name, prefix) ==
    IF StartsWith(file_name, EXTERNAL \o prefix \o <<"-">>) THEN file_name
    ELSE IF StartsWith(file_name, prefix \o <<"-">>)
         THEN Replace(file_name, prefix \o <<"-">>, EXTERNAL \o prefix \o <<"-">>)
    ELSE EXTERNAL \o prefix \o <<"-">> \o file_name

\* XSIAMReport.normalize_file_name, of the object whose file is p
normalize_file_name(p) == generate_xsiam_normalized_name(Name(p), XSIAM_REPORT)

\* XSIAMReport.image_path: '<stem>_image.png' next to the definition, or None
image_path(p, files) ==
    LET image_file == JoinPath(Parent(p), Stem(p) \o <<"_image", ".png">>)
    IN  IF image_file \in DOMAIN files THEN image_file ELSE None

\* JSONContentObject.dump and XSIAMReportImage.dump: the object's file is written
\* into dest under its normalized name and that one path is returned; dest is
\* created when absent
GeneralObject_dump(files, ds, p, dest) ==
    LET dest_file == JoinPath(dest, normalize_file_name(p))
    IN  [files |-> [q \in DOMAIN files \cup {dest_file} |->
                       IF q = dest_file THEN files[p] ELSE files[q]],
         dirs |-> ds \cup {dest},
         created |-> <<dest_file>>]

\* new_file_path = created_files[-1]
last_created_file(created) == created[Len(created)]

\* line 65: new_file_path = created_files[0]
new_file_path_of(created) == created[1]

\* Version(fromVersion) > Version('6.10.0')
is_modern_only_strict(d) ==
    VersionLess(Cutover, Get(d, "fromVersion", DefaultFromVersion))

\* line 67: Version(self.get('fromVersion', '0.0.0')) >= Version('6.10.0')
is_modern_only(d) ==
    VersionGreaterEq(Get(d, "fromVersion", DefaultFromVersion), Cutover)

\* Version(toVersion) > Version('6.10.0')
is_legacy_only_flipped(d) ==
    VersionLess(Cutover, Get(d, "toVersion", DefaultToVersion))

\* line 75: Version(self.get('toVersion', '99.99.99')) < Version('6.10.0')
is_legacy_only(d) ==
    VersionLess(Get(d, "toVersion", DefaultToVersion), Cutover)

\* lines 78 and 86: str(new_file_path).replace('external-', '')
without_external(new_file_path) == Replace(new_file_path, EXTERNAL, <<>>)

\* lines 70 and 88: new_file_path.parent / self.normalize_file_name()
with_external(p, new_file_path) == JoinPath(Parent(new_file_path), normalize_file_name(p))

\* lines 69-73 and 77-81: the rename of the primary file and of its list entry
rename_created(st, new_file_path, move_to_path) ==
    IF Parent(move_to_path) \notin st.dirs THEN [st EXCEPT !.raised = TRUE]
    ELSE [st EXCEPT !.files = shutil_move(st.files, st.dirs, new_file_path, move_to_path).files,
                    !.created = Append(ListRemove(st.created, new_file_path), move_to_path)]

\* lines 58-63: the definition is dumped, then the image when there is one;
\* the files and directories after it and the list created so far
dump_definition_and_image(files, ds, p, dest) ==
    LET image == image_path(p, files)
    IN  IF image = None THEN GeneralObject_dump(files, ds, p, dest)
        ELSE LET base == GeneralObject_dump(files, ds, p, dest)
                 img == GeneralObject_dump(base.files, base.dirs, image, dest)
             IN  [files |-> img.files, dirs |-> img.dirs,
                  created |-> base.created \o img.created]

\* lines 65-92: the version branches, on what dump_definition_and_image left:
\* the files after them, the list returned, the branch taken and whether
\* the move or the copy raised
dump_by_version(dumped, p, d) ==
    LET new_file_path == new_file_path_of(dumped.created)
        st == [files |-> dumped.files, dirs |-> dumped.dirs, created |-> dumped.created,
               raised |-> FALSE, taken |-> {}]
    IN  IF is_modern_only(d)
        THEN IF ~StartsWith(Name(new_file_path), EXTERNAL)
             THEN rename_created([st EXCEPT !.taken = {"modern"}], new_file_path,
                                 with_external(p, new_file_path))
             ELSE [st EXCEPT !.taken = {"modern"}]
        ELSE IF is_legacy_only(d)
        THEN IF StartsWith(Name(new_file_path), EXTERNAL)
             THEN rename_created([st EXCEPT !.taken = {"legacy"}], new_file_path,
                                 without_external(new_file_path))
             ELSE [st EXCEPT !.taken = {"legacy"}]
        ELSE LET copy_to_path == IF StartsWith(Name(new_file_path), EXTERNAL)
                                 THEN without_external(new_file_path)
                                 ELSE with_external(p, new_file_path)
                 copied == shutil_copyfile(dumped.files, dumped.dirs, new_file_path, copy_to_path)
             IN  IF ~copied.ok THEN [st EXCEPT !.taken = {"straddling"}, !.raised = TRUE]
                 ELSE [st EXCEPT !.taken = {"straddling"}, !.files = copied.files]

\* ---- the inputs of the dump specification

\* the directory of the pack the report is read from
SRC_DIR == <<"pack">>

\* file names a report definition comes under
SrcNames ==
    { <<"foo", ".json">>,
      <<"xsiamreport", "-", "foo", ".json">>,
      <<"external", "-", "xsiamreport", "-", "foo", ".json">>,
      <<"external", "-", "foo", ".json">> }

\* destination directories, with and without the text 'external-' in them
DestDirs ==
    { <<"out">>,
      <<"external", "-", "out">>,
      <<"external", "-", "build", "/", "out">> }

\* version strings a report declares
Versions == { <<0, 0, 0>>, <<6, 9, 0>>, <<6, 10>>, <<6, 10, 0>>, <<6, 10, 1>>, <<8, 0, 0>>, <<99, 99, 99>> }

\* the reports: each of fromVersion and toVersion declared or not
ReportData ==
    UNION { [keys -> Versions] : keys \in SUBSET {"fromVersion", "toVersion"} }

\* the state before dump is called
InitDump ==
    /\ path \in {JoinPath(SRC_DIR, n) : n \in SrcNames}
    /\ data \in ReportData
    /\ dest_dir \in DestDirs
    /\ \E extra \in SUBSET {dest_dir, without_external(dest_dir)} :
          dirs = {SRC_DIR} \cup extra
    /\ \E has_image \in BOOLEAN, stale \in BOOLEAN :
          LET image_file == JoinPath(SRC_DIR, Stem(path) \o <<"_image", ".png">>)
              old_copy == without_external(JoinPath(dest_dir, normalize_file_name(path)))
              sources == IF has_image THEN {path, image_file} ELSE {path}
              others == IF stale /\ Parent(old_copy) \in dirs THEN {old_copy} ELSE {}
          IN  disk = [q \in sources \cup others |->
                         IF q = path THEN "report"
                         ELSE IF q \in sources THEN "image" ELSE "stale"]
    /\ created_files = <<>>
    /\ taken = {}
    /\ pc = "ready"

\* XSIAMReport.dump(dest_dir)
Dump ==
    /\ pc = "ready"
    /\ \E dumped \in {dump_definition_and_image(disk, dirs, path, dest_dir)} :
       \E r \in {dump_by_version(dumped, path, data)} :
           /\ disk' = r.files
           /\ dirs' = r.dirs
           /\ taken' = r.taken
           /\ created_files' = IF r.raised THEN <<>> ELSE r.created
           /\ pc' = IF r.raised THEN "raised" ELSE "returned"
    /\ UNCHANGED <<path, data, dest_dir>>
    /\ UNCHANGED <<normVars, graphVars, ymlVars>>

\* ---- the properties of XSIAMReport.dump

\* a release as one number, its missing parts 0 (every part is below 100)
Weight(v) ==
    LET part(i) == IF i <= Len(v) THEN v[i] ELSE 0
    IN  part(1) * 10000 + part(2) * 100 + part(3)

\* the report's bounds, the defaults standing in for the absent ones
FromVersion == IF "fromVersion" \in DOMAIN data THEN data["fromVersion"] ELSE <<0, 0, 0>>
ToVersion == IF "toVersion" \in DOMAIN data THEN data["toVersion"] ELSE <<99, 99, 99>>

ModernRange == Weight(FromVersion) >= Weight(<<6, 10, 0>>)
LegacyRange == ~ModernRange /\ Weight(ToVersion) < Weight(<<6, 10, 0>>)
StraddlingRange == Weight(FromVersion) < Weight(<<6, 10, 0>>) /\ Weight(<<6, 10, 0>>) <= Weight(ToVersion)

\* the side image of the report, in the pack and as dumped
SideImage == JoinPath(SRC_DIR, Stem(path) \o <<"_image", ".png">>)
HasSideImage == SideImage \in DOMAIN disk
DumpedImage == JoinPath(dest_dir, normalize_file_name(SideImage))

\* where the primary file is first written
DumpedPrimary == JoinPath(dest_dir, normalize_file_name(path))

Returned == {created_files[i] : i \in 1..Len(created_files)}

\* C1: a straddling report without a side image returns exactly 2 paths, both
\* on disk with the same content, their names differing by 'external-' only.
C1_StraddlingReturnsBothFiles ==
    (pc = "returned" /\ StraddlingRange /\ ~HasSideImage) =>
        /\ Len(created_files) = 2
        /\ Returned \subseteq DOMAIN disk
        /\ disk[created_files[1]] = disk[created_files[2]]
        /\ \/ Name(created_files[1]) = EXTERNAL \o Name(created_files[2])
           \/ Name(created_files[2]) = EXTERNAL \o Name(created_files[1])

\* C2: a non-straddling report without a side image returns exactly 1 path;
\* for fromVersion >= 6.10.0 its name starts with 'external-' and it sits
\* where it was dumped when the dumped name already did; for toVersion < 6.10.0
\* (and fromVersion < 6.10.0) its name does not start with 'external-'.
C2_NonStraddlingOnePath ==
    (pc = "returned" /\ ~StraddlingRange /\ ~HasSideImage) =>
        /\ Len(created_files) = 1
        /\ ModernRange =>
              /\ StartsWith(Name(created_files[1]), EXTERNAL)
              /\ Parent(created_files[1]) = dest_dir
              /\ StartsWith(Name(DumpedPrimary), EXTERNAL) => created_files[1] = DumpedPrimary
        /\ LegacyRange => ~StartsWith(Name(created_files[1]), EXTERNAL)

C2_Witness ==
    /\ pc = "returned" /\ LegacyRange /\ ~HasSideImage
    /\ Len(created_files) = 1
    /\ created_files[1] # DumpedPrimary
    /\ ~StartsWith(Name(created_files[1]), EXTERNAL)

\* C3: dump takes exactly one of the branches modern, legacy, straddling; it
\* takes straddling iff fromVersion < 6.10.0 <= toVersion after the defaults
\* 0.0.0 / 99.99.99 stand in for the missing bounds; a report that declares
\* neither bound is straddling.
C3_BranchMatchesRange ==
    (pc # "ready") =>
        /\ Cardinality(taken) = 1
        /\ taken \subseteq {"modern", "legacy", "straddling"}
        /\ taken = {"straddling"} <=> StraddlingRange
        /\ taken = {"modern"} <=> ModernRange
        /\ taken = {"legacy"} <=> LegacyRange
        /\ DOMAIN data = {} => taken = {"straddling"}

C3_Witness ==
    /\ pc = "returned"
    /\ DOMAIN data = {"fromVersion", "toVersion"}
    /\ data["fromVersion"] = <<6, 9, 0>> /\ data["toVersion"] = <<6, 10>>
    /\ taken = {"straddling"}

\* the branch taken renames the primary file
Renamed ==
    \/ taken = {"modern"} /\ ~StartsWith(Name(DumpedPrimary), EXTERNAL)
    \/ taken = {"legacy"} /\ StartsWith(Name(DumpedPrimary), EXTERNAL)

\* C4: when dump returns, every returned path is a file on disk; after a
\* rename in the modern or the legacy branch the old name is neither returned
\* nor on disk, with or without a side image.
C4_ReturnedPathsExist ==
    (pc = "returned") =>
        /\ Returned \subseteq DOMAIN disk
        /\ Renamed =>
              /\ DumpedPrimary \notin Returned
              /\ DumpedPrimary \notin DOMAIN disk

C4_Witness ==
    /\ pc = "returned" /\ Renamed /\ HasSideImage
    /\ Len(created_files) = 2
    /\ DumpedPrimary \notin DOMAIN disk
    /\ Returned \subseteq DOMAIN disk

\* C6: every file dump writes, moves or copies is inside dest_dir, in every
\* branch and for every dest_dir, also one with 'external-' in it.
C6_FilesStayInDestDir ==
    (pc # "ready") =>
        \A q \in DOMAIN disk :
            (Parent(q) # SRC_DIR /\ disk[q] # "stale") => Parent(q) = dest_dir

\* C7: with '<stem>_image.png' next to the definition the returned list holds
\* the dumped image in every branch, and the rename or copy is applied to the
\* primary file only: the image stays where it was dumped and nothing else
\* carries its bytes.
C7_ImageReturnedUntouched ==
    (pc = "returned" /\ HasSideImage) =>
        /\ DumpedImage \in Returned
        /\ DumpedImage \in DOMAIN disk /\ disk[DumpedImage] = "image"
        /\ \A q \in DOMAIN disk : disk[q] = "image" => q \in {SideImage, DumpedImage}
        /\ \E q \in Returned : disk[q] = "report"

C7_Witness ==
    /\ pc = "returned" /\ HasSideImage /\ taken = {"legacy"}
    /\ DumpedImage \in Returned
    /\ created_files[Len(created_files)] = without_external(DumpedPrimary)

\* ---- the states of the parts a specification leaves alone

IdleDump ==
    /\ path = <<>> /\ data = <<>> /\ dest_dir = <<>> /\ disk = <<>> /\ dirs = {}
    /\ created_files = <<>> /\ taken = {} /\ pc = "idle"

IdleNorm ==
    /\ name = <<>> /\ server_name = <<>> /\ normalized = <<>> /\ renormalized = <<>>
    /\ npc = "idle"

IdleGraph ==
    /\ relationships_data = <<>> /\ iter_order = <<>> /\ query = <<>>

IdleYml ==
    /\ yml_type = "" /\ source_yml = <<>> /\ yml_data = <<>> /\ commonfields = <<>>
    /\ id_and_version_location = "" /\ arguments_to_remove = {}
    /\ old_file = "" /\ from_version = "" /\ schema_fields = {} /\ ypc = "idle"

\* ---- XSIAMReport.dump on every report, destination and disk of the inputs
SpecDumpInit == InitDump /\ IdleNorm /\ IdleGraph /\ IdleYml
SpecDumpNext == Dump
SpecDump == SpecDumpInit /\ [][SpecDumpNext]_vars


(***************************************************************************)
(* ContentItem.normalize_name                                              *)
(***************************************************************************)

\* the longest file name tried, in tokens
MaxNameLen == 4

\* ContentType.server_names(): the prefixes the server knows, in the order
\* of the enumeration (the ones that can occur in the names below)
ServerNames == << <<"script">>, <<"playbook">> >>

\* the tokens of a file name
NameTokens == {"script", "playbook", "-", "foo"}

\* the loop of lines 138-139 from the i-th server name on
RECURSIVE StripServerNames(_, _)
StripServerNames(file_name, i) ==
    IF i > Len(ServerNames) THEN file_name
    ELSE StripServerNames(Replace(file_name, ServerNames[i] \o <<"-">>, <<>>), i + 1)

\* ContentItem.normalize_name of an item whose file is called file_name and
\* whose content type has the server name own
normalize_name(file_name, own) == own \o <<"-">> \o StripServerNames(file_name, 1)

FileNames == UNION { [1..n -> NameTokens] : n \in 0..MaxNameLen }

InitNorm ==
    /\ name \in FileNames
    /\ server_name \in {ServerNames[i] : i \in 1..Len(ServerNames)}
    /\ normalized = <<>>
    /\ renormalized = <<>>
    /\ npc = "start"

\* the item is dumped: normalize_name is read once
Normalize ==
    /\ npc = "start"
    /\ normalized' = normalize_name(name, server_name)
    /\ npc' = "once"
    /\ UNCHANGED <<name, server_name, renormalized>>
    /\ UNCHANGED <<dumpVars, graphVars, ymlVars>>

\* the dumped file is loaded as an item of the same type and normalize_name read again
Renormalize ==
    /\ npc = "once"
    /\ renormalized' = normalize_name(normalized, server_name)
    /\ npc' = "twice"
    /\ UNCHANGED <<name, server_name, normalized>>
    /\ UNCHANGED <<dumpVars, graphVars, ymlVars>>

\* C5: normalizing a normalized name gives the same name, for every file name,
\* with or without server-name prefixes in it.
C5_NormalizeIdempotent == (npc = "twice") => renormalized = normalized

\* ---- ContentItem.normalize_name applied twice to every file name of the inputs
SpecNormInit == IdleDump /\ InitNorm /\ IdleGraph /\ IdleYml
SpecNormNext == Normalize \/ Renormalize
SpecNorm == SpecNormInit /\ [][SpecNormNext]_vars


(***************************************************************************)
(* ContentItem.in_pack, uses, tested_by over the relationship index        *)
(***************************************************************************)

\* the number of content objects of the graph
NumNodes == 2

\* the most relationships added to the graph
MaxEdges == 2

Nodes == 1..NumNodes

\* RelationshipType
RelationshipTypes == {"IN_PACK", "USES", "TESTED_BY"}

\* what in_pack returns for no pack: None
NoneNode == 0

\* the orders a set can be iterated in
Orders(S) ==
    {o \in [1..Cardinality(S) -> S] : \A i, j \in 1..Cardinality(S) : o[i] = o[j] => i = j}

\* RelationshipData of the relationship source -> target, as held by the
\* index of one endpoint: content_item is the other endpoint
RelationshipData(type, source, target, content_item) ==
    [relationship_type |-> type, source |-> source, target |-> target,
     content_item |-> content_item]

\* the relationships the graph holds
Edges ==
    {<<r.relationship_type, r.source, r.target>> :
        r \in UNION {relationships_data[n][t] : n \in Nodes, t \in RelationshipTypes}}

InitGraph ==
    /\ relationships_data = [n \in Nodes |-> [t \in RelationshipTypes |-> {}]]
    /\ iter_order = [n \in Nodes |-> <<>>]
    /\ query = [op |-> "none", node |-> NoneNode, result |-> {}]

\* the graph gets the relationship source -> target: it is added to the
\* index of both endpoints (relationships_data is a defaultdict of sets);
\* a set that changed may iterate in any order from then on
AddRelationship(type, source, target) ==
    /\ Cardinality(Edges \cup {<<type, source, target>>}) <= MaxEdges
    /\ LET at_source == RelationshipData(type, source, target, target)
           at_target == RelationshipData(type, source, target, source)
           added(n) == (IF n = source THEN {at_source} ELSE {})
                           \cup (IF n = target THEN {at_target} ELSE {})
       IN  /\ relationships_data' =
                 [n \in Nodes |->
                     [t \in RelationshipTypes |->
                         IF t = type THEN relationships_data[n][t] \cup added(n)
                         ELSE relationships_data[n][t]]]
           /\ \E at_s \in Orders(relationships_data'[source]["IN_PACK"]),
                 at_t \in Orders(relationships_data'[target]["IN_PACK"]) :
                 iter_order' =
                     [n \in Nodes |->
                         IF relationships_data'[n]["IN_PACK"] = relationships_data[n]["IN_PACK"]
                         THEN iter_order[n]
                         ELSE IF n = source THEN at_s ELSE at_t]
    /\ query' = [op |-> "none", node |-> NoneNode, result |-> {}]
    /\ UNCHANGED <<dumpVars, normVars, ymlVars>>

\* next(reversed(in_pack)).content_item: the last one found
in_pack_last(n) ==
    IF relationships_data[n]["IN_PACK"] = {} THEN NoneNode
    ELSE iter_order[n][Len(iter_order[n])].content_item

\* ContentItem.in_pack
in_pack(n) ==
    LET in_pack_rels == relationships_data[n]["IN_PACK"]
    IN  IF in_pack_rels = {} THEN NoneNode
        ELSE iter_order[n][1].content_item

\* the USES relationships, the guard left out
uses_unguarded(n) == relationships_data[n]["USES"]

\* ContentItem.uses
uses(n) == {r \in relationships_data[n]["USES"] : r.content_item = r.target}

\* ContentItem.tested_by
tested_by(n) ==
    {r.content_item : r \in {x \in relationships_data[n]["TESTED_BY"] : x.content_item = x.target}}

ReadInPack(n) ==
    /\ query' = [op |-> "in_pack", node |-> n, result |-> in_pack(n)]
    /\ UNCHANGED <<relationships_data, iter_order>>
    /\ UNCHANGED <<dumpVars, normVars, ymlVars>>

ReadUses(n) ==
    /\ query' = [op |-> "uses", node |-> n, result |-> uses(n)]
    /\ UNCHANGED <<relationships_data, iter_order>>
    /\ UNCHANGED <<dumpVars, normVars, ymlVars>>

ReadTestedBy(n) ==
    /\ query' = [op |-> "tested_by", node |-> n, result |-> tested_by(n)]
    /\ UNCHANGED <<relationships_data, iter_order>>
    /\ UNCHANGED <<dumpVars, normVars, ymlVars>>

\* C8: uses returns exactly the USES relationships of the item's index whose
\* content_item is the relationship's target, so none that was indexed from
\* its other end; tested_by returns the content items of exactly the TESTED_BY
\* relationships that pass the same guard; both are empty when there is none.
C8_UsesAndTestedByGuarded ==
    /\ (query.op = "uses") =>
          LET index == relationships_data[query.node]["USES"]
          IN  /\ query.result \subseteq index
              /\ \A r \in index : r \in query.result <=> r.content_item = r.target
              /\ \A r \in query.result : r.source = query.node
              /\ \A b \in Nodes :
                    <<"USES", query.node, b>> \in Edges =>
                        \E r \in query.result : r.target = b
              /\ (\A b \in Nodes : <<"USES", query.node, b>> \notin Edges) => query.result = {}
    /\ (query.op = "tested_by") =>
          LET index == relationships_data[query.node]["TESTED_BY"]
          IN  /\ \A r \in index : r.content_item = r.target => r.content_item \in query.result
              /\ \A b \in query.result : <<"TESTED_BY", query.node, b>> \in Edges
              /\ (\A b \in Nodes : <<"TESTED_BY", query.node, b>> \notin Edges) => query.result = {}

C8_Witness ==
    /\ query.op = "uses"
    /\ \E r \in relationships_data[query.node]["USES"] : r.content_item # r.target
    /\ \E r \in relationships_data[query.node]["USES"] : r.content_item = r.target
    /\ Cardinality(query.result) = 1

\* what in_pack has to return for the read in query
InPackAsFound ==
    (query.op = "in_pack") =>
        LET index == relationships_data[query.node]["IN_PACK"]
        IN  /\ index = {} => query.result = NoneNode
            /\ index # {} =>
                  /\ query.result = iter_order[query.node][1].content_item
                  /\ \E r \in index : r.content_item = query.result

\* in_pack read again for the same item on the same graph returns the same
InPackRepeats ==
    (/\ query.op = "in_pack" /\ query'.op = "in_pack" /\ query'.node = query.node
     /\ relationships_data' = relationships_data) => query'.result = query.result

SpecGraphInit == IdleDump /\ IdleNorm /\ InitGraph /\ IdleYml
SpecGraphNext ==
    \/ \E type \in RelationshipTypes, source \in Nodes, target \in Nodes :
          AddRelationship(type, source, target)
    \/ \E n \in Nodes : ReadInPack(n)
    \/ \E n \in Nodes : ReadUses(n)
    \/ \E n \in Nodes : ReadTestedBy(n)
SpecGraph == SpecGraphInit /\ [][SpecGraphNext]_vars


(***************************************************************************)
(* BaseUpdateYML.update_yml                                                *)
(*                                                                         *)
(* yml_data maps the top-level keys of the file to their values; the value *)
(* of 'commonfields' is the one nested mapping object, held in the         *)
(* variable commonfields, which lives on when the key is popped.  Every    *)
(* scalar is text, a number the text of its digits.                        *)
(***************************************************************************)

NEW_FILE_DEFAULT_FROMVERSION == <<"5.0.0">>
OLD_FILE_DEFAULT_FROMVERSION == <<"1.0.0">>
DEFAULT_YML_VERSION == <<"-1">>

\* ID_AND_VERSION_PATH_BY_YML_TYPE
ID_AND_VERSION_PATH_BY_YML_TYPE ==
    [IntegrationYMLFormat |-> "commonfields",
     ScriptYMLFormat |-> "commonfields",
     PlaybookYMLFormat |-> ""]

\* get_id_and_version_path_object: the object self.yml_data.get(path, self.yml_data) is
get_id_and_version_path_object(type, yml) ==
    IF ID_AND_VERSION_PATH_BY_YML_TYPE[type] \in DOMAIN yml THEN "commonfields" ELSE "yml_data"

\* arguments_to_remove: the fields of the file that the schema does not map
arguments_to_remove_of(yml, schema) == {field \in DOMAIN yml : field \notin schema}

\* d[key] = value
SetItem(d, key, value) == [k \in DOMAIN d \cup {key} |-> IF k = key THEN value ELSE d[k]]

\* d.pop(key, None)
Pop(d, key) == [k \in DOMAIN d \ {key} |-> d[k]]

\* set_fromVersion(from_version)
set_fromVersion(yml, old, given) ==
    IF old = ""
    THEN IF "fromversion" \notin DOMAIN yml
         THEN SetItem(yml, "fromversion",
                      IF given # "" THEN <<given>> ELSE NEW_FILE_DEFAULT_FROMVERSION)
         ELSE yml
    ELSE IF "fromversion" \notin DOMAIN yml
         THEN SetItem(yml, "fromversion",
                      IF given # "" THEN <<given>> ELSE OLD_FILE_DEFAULT_FROMVERSION)
         ELSE yml

\* text.replace('_copy', '').replace('_dev', '')
without_suffixes(text) == Replace(Replace(text, <<"_copy">>, <<>>), <<"_dev">>, <<>>)

\* remove_copy_and_dev_suffixes_from_name
remove_copy_and_dev_suffixes_from_name(yml) ==
    LET named == SetItem(yml, "name", without_suffixes(Get(yml, "name", <<>>)))
    IN  IF Get(named, "display", <<>>) # <<>>
        THEN SetItem(named, "display", without_suffixes(Get(named, "display", <<>>)))
        ELSE named

\* remove_unnecessary_keys
RECURSIVE PopAll(_, _)
PopAll(d, keys) ==
    IF keys = {} THEN d
    ELSE LET key == CHOOSE k \in keys : TRUE IN PopAll(Pop(d, key), keys \ {key})

remove_unnecessary_keys(yml, remove) == PopAll(yml, remove)

\* update_yml on the object st = [yml, cf, raised]: lines 158-162
update_yml(st, location, old, given, remove) ==
    LET versioned == set_fromVersion(st.yml, old, given)
        renamed == remove_copy_and_dev_suffixes_from_name(versioned)
        pruned == remove_unnecessary_keys(renamed, remove)
    IN  IF "name" \notin DOMAIN pruned
        THEN \* update_id_to_equal_name: self.yml_data['name'] raises KeyError
             [yml |-> pruned, cf |-> st.cf, raised |-> TRUE]
        ELSE IF location = "commonfields"
        THEN [yml |-> pruned,
              cf |-> SetItem(SetItem(st.cf, "id", pruned["name"]), "version", DEFAULT_YML_VERSION),
              raised |-> FALSE]
        ELSE [yml |-> SetItem(SetItem(pruned, "id", pruned["name"]), "version", DEFAULT_YML_VERSION),
              cf |-> st.cf,
              raised |-> FALSE]

\* ---- the inputs of the formatter

YmlTypes == {"IntegrationYMLFormat", "ScriptYMLFormat", "PlaybookYMLFormat"}

\* the values the fields of the file have when the file has them
FieldValues ==
    [name |-> {<<"A">>, <<"A", "_copy">>, <<"A", "_dev", "_copy">>},
     display |-> {<<"A", "_dev">>},
     commonfields |-> {<<"{id, version}">>},
     fromversion |-> {<<"4.5.0">>},
     id |-> {<<"old">>},
     version |-> {<<"3">>},
     detaileddescription |-> {<<"text">>}]

YmlFields == DOMAIN FieldValues

\* the fields a file of the type always has: a name, and its id and version
\* under 'commonfields' (integrations, scripts) or at the top level (playbooks)
RequiredFields(type) ==
    IF type = "PlaybookYMLFormat" THEN {"name", "id", "version"} ELSE {"name", "commonfields"}

\* the fields a file of the type may have
OptionalFields == {"display", "fromversion", "detaileddescription"}

\* the files of the type, each field with one of its values
YmlFiles(type) ==
    UNION { {f \in [keys -> UNION {FieldValues[k] : k \in keys}] :
                \A k \in keys : f[k] \in FieldValues[k]} :
            keys \in {RequiredFields(type) \cup opt : opt \in SUBSET OptionalFields} }

\* the schemas: 'mapping' holds any of the fields but detaileddescription
Schemas == SUBSET (YmlFields \ {"detaileddescription"})

\* the state __init__ leaves (lines 30-47)
InitYml ==
    /\ yml_type \in YmlTypes
    /\ source_yml \in YmlFiles(yml_type)
    /\ yml_data = source_yml
    /\ commonfields = IF "commonfields" \in DOMAIN source_yml
                      THEN [id |-> <<"old">>, version |-> <<"3">>] ELSE <<>>
    /\ schema_fields \in Schemas
    /\ old_file \in {"", "old.yml"}
    /\ from_version \in {"", "6.0.0"}
    /\ id_and_version_location = get_id_and_version_path_object(yml_type, yml_data)
    /\ arguments_to_remove = arguments_to_remove_of(yml_data, schema_fields)
    /\ ypc = "constructed"

\* BaseUpdateYML.update_yml()
UpdateYml ==
    /\ ypc = "constructed"
    /\ LET r == update_yml([yml |-> yml_data, cf |-> commonfields, raised |-> FALSE],
                           id_and_version_location, old_file, from_version,
                           arguments_to_remove)
       IN  /\ yml_data' = r.yml
           /\ commonfields' = r.cf
           /\ ypc' = IF r.raised THEN "raised" ELSE "done"
    /\ UNCHANGED <<yml_type, source_yml, id_and_version_location, arguments_to_remove,
                   old_file, from_version, schema_fields>>
    /\ UNCHANGED <<dumpVars, normVars, graphVars>>

\* the mapping that holds id and version in the data that will be saved:
\* under 'commonfields' for integrations and scripts, the top level for playbooks
SavedIdAndVersion ==
    IF yml_type = "PlaybookYMLFormat" THEN yml_data
    ELSE IF "commonfields" \in DOMAIN yml_data THEN commonfields
    ELSE <<>>

\* the fromversion the file is to end with
ExpectedFromVersion ==
    IF "fromversion" \in DOMAIN source_yml THEN source_yml["fromversion"]
    ELSE IF from_version # "" THEN <<from_version>>
    ELSE IF old_file = "" THEN <<"5.0.0">> ELSE <<"1.0.0">>

\* C10: for every file, its fields in the schema mapping or not, update_yml
\* runs to completion and leaves the data to save with an id, at the id and
\* version location, equal to the final name, a version of -1 and the
\* fromversion it had, else the one given, else 5.0.0 (new) or 1.0.0 (modified).
C10_UpdateYmlLeavesIdVersionFromVersion ==
    (ypc # "constructed") =>
        /\ ypc = "done"
        /\ "name" \in DOMAIN yml_data
        /\ "id" \in DOMAIN SavedIdAndVersion
        /\ SavedIdAndVersion["id"] = yml_data["name"]
        /\ "version" \in DOMAIN SavedIdAndVersion
        /\ SavedIdAndVersion["version"] = <<"-1">>
        /\ "fromversion" \in DOMAIN yml_data
        /\ yml_data["fromversion"] = ExpectedFromVersion

\* ---- update_yml on every file, schema and arguments of the inputs
SpecYmlInit == IdleDump /\ IdleNorm /\ IdleGraph /\ InitYml
SpecYmlNext == UpdateYml
SpecYml == SpecYmlInit /\ [][SpecYmlNext]_vars

====
